---- MODULE Spec2Model ----
(***************************************************************************)
(* filter.py: the per-commit callbacks of a git-filter-branch run that     *)
(* re-parents commits made on top of OLD_UPSTREAM onto the corresponding   *)
(* commits of NEW_UPSTREAM and moves their trees under clang/.             *)
(*                                                                         *)
(* A Python str is a sequence of symbols; a symbol is an atomic chunk of   *)
(* text (a commit hash, "-p", a space, a newline, one character of an      *)
(* e-mail address).  A Python value is a record [kind, val].               *)
(***************************************************************************)
EXTENDS Integers, Sequences, FiniteSets, TLC

VARIABLES repo, cacheEnabled, cache, mapdir, index, new_index,
          pc, cmd, rev, stdin, stdout, parent_rev, ret, runs, snap, lsfail

vars == <<repo, cacheEnabled, cache, mapdir, index, new_index,
          pc, cmd, rev, stdin, stdout, parent_rev, ret, runs, snap, lsfail>>

\* ------------------------------------------------------------------ bounds
MaxTime == 3
MaxMapLen == 3
MaxRuns == 2

\* ------------------------------------------------------- program constants
OLD_UPSTREAM == "old-clang/master"
NEW_UPSTREAM == "origin/master"
Prefix == "clang"

\* ------------------------------------------------------------ Python values
SP == " "
NL == "\n"
PyNone == [kind |-> "None", val |-> <<>>]
PyStr(s) == [kind |-> "str", val |-> s]
PyBool(b) == [kind |-> "bool", val |-> IF b THEN <<"True">> ELSE <<"False">>]
Raise(e) == [kind |-> "raise", val |-> <<e>>]
PyTrue == PyBool(TRUE)
PyFalse == PyBool(FALSE)
\* Python truthiness of a value: None, '' and False are falsy.
Truthy(v) == /\ v.kind \in {"str", "bool"}
             /\ v.val # <<>>
             /\ v # PyFalse

IsSpace(c) == c \in {SP, NL}

RECURSIVE LStrip(_)
LStrip(t) == IF t # <<>> /\ IsSpace(Head(t)) THEN LStrip(Tail(t)) ELSE t

RECURSIVE RStrip(_)
RStrip(t) == IF t # <<>> /\ IsSpace(t[Len(t)])
             THEN RStrip(SubSeq(t, 1, Len(t) - 1)) ELSE t

\* str.strip()
strip(t) == RStrip(LStrip(t))

\* str.split(sep): the fields between occurrences of sep; never an empty list.
RECURSIVE split_sep(_, _)
split_sep(t, sep) ==
  IF \E i \in 1..Len(t) : t[i] = sep
  THEN LET i == CHOOSE k \in 1..Len(t) :
                   t[k] = sep /\ \A j \in 1..(k - 1) : t[j] # sep
       IN <<SubSeq(t, 1, i - 1)>> \o split_sep(SubSeq(t, i + 1, Len(t)), sep)
  ELSE <<t>>

\* str.split(): the maximal runs of non-whitespace; an empty list for ''.
RECURSIVE split_ws(_)
split_ws(t) ==
  LET s == LStrip(t) IN
  IF s = <<>> THEN <<>>
  ELSE LET n == IF \E i \in 1..Len(s) : IsSpace(s[i])
                THEN CHOOSE k \in 1..Len(s) :
                       IsSpace(s[k]) /\ \A j \in 1..(k - 1) : ~IsSpace(s[j])
                ELSE Len(s) + 1
       IN <<SubSeq(s, 1, n - 1)>> \o split_ws(SubSeq(s, n, Len(s)))

\* ' '.join(list)
RECURSIVE join_sp(_)
join_sp(l) == IF l = <<>> THEN <<>>
              ELSE IF Len(l) = 1 THEN l[1]
              ELSE l[1] \o <<SP>> \o join_sp(Tail(l))

Range(f) == {f[i] : i \in DOMAIN f}

RECURSIVE SetToSeq(_)
SetToSeq(S) == IF S = {} THEN <<>>
               ELSE LET x == CHOOSE y \in S : TRUE
                    IN <<x>> \o SetToSeq(S \ {x})

\* ------------------------------------------------------------ the repository
Commits == {"o1", "o2", "n1", "n2", "n3", "c1", "c2", "c3", "c4", "d1", "r1"}
Emails == {<<"a">>, <<"x", "a">>, <<"c">>}
Times == 0..MaxTime

Entry(path, obj) == [path |-> path, obj |-> obj]
\* The trees of the fixture, as `git ls-tree -r` lists them (sorted by path).
TreeSrc == <<Entry(<<"f">>, "b1")>>
TreeSrc2 == <<Entry(<<"f">>, "b2"), Entry(<<"g">>, "b3")>>
TreeMono == <<Entry(<<"clang", "f">>, "b4"), Entry(<<"llvm">>, "b5")>>
TreeMonoOnly == <<Entry(<<"clang", "f">>, "b4")>>
TreeFileNamedPrefix == <<Entry(<<"clang">>, "b6"), Entry(<<"f">>, "b1")>>
TreeEmpty == <<>>

Commit(parents, email, at, ct, tree) ==
  [parents |-> parents, name |-> <<"n">>, email |-> email,
   atime |-> at, ctime |-> ct, tree |-> tree]

\* What varies between repositories: the committer times and author e-mails
\* of the new-upstream commits, the committer time of o1, and the trees (tv).
Params == [n1t : Times, n2e : Emails, n2t : Times, n3e : Emails, n3t : Times,
           o1ct : {0, 1}, tv : {1}]

\* The repositories of the per-commit runs: the plain one (o1 ~ n1, o2 ~ n2, the
\* local work unmatched) under each tree variant, then an ambiguous o2, an o2
\* matched only by a longer e-mail, an o2 without counterpart, and a c1 that
\* new upstream already holds.
Plain == [n1t |-> 0, n2e |-> <<"a">>, n2t |-> 2, n3e |-> <<"c">>, n3t |-> 2,
          o1ct |-> 0, tv |-> 1]
MainParams ==
  {Plain, [Plain EXCEPT !.tv = 2], [Plain EXCEPT !.tv = 3],
   [Plain EXCEPT !.n3e = <<"a">>],
   [Plain EXCEPT !.n2e = <<"x", "a">>],
   [Plain EXCEPT !.n2t = 1],
   [Plain EXCEPT !.n3t = 3]}

\* old line o1 <- o2 (tip); new line n1 <- n2 <- n3 (tip), unrelated to the old
\* one; c1..c4 are local work on top of the old line; d1 is the root of a third
\* history, merged by c4; r1 is a commit an earlier rewrite produced.
Repo(p) ==
  [refs |-> (OLD_UPSTREAM :> "o2" @@ NEW_UPSTREAM :> "n3"),
   commits |->
     ("o1" :> Commit(<<>>, <<"a">>, 0, p.o1ct, TreeSrc) @@
      "o2" :> Commit(<<"o1">>, <<"a">>, 2, 2, TreeSrc) @@
      "n1" :> Commit(<<>>, <<"a">>, p.n1t, p.n1t, TreeMono) @@
      "n2" :> Commit(<<"n1">>, p.n2e, p.n2t, p.n2t,
                     IF p.tv = 3 THEN TreeMonoOnly ELSE TreeMono) @@
      "n3" :> Commit(<<"n2">>, p.n3e, p.n3t, p.n3t, TreeMono) @@
      "c1" :> Commit(<<"o2">>, <<"c">>, 3, 3,
                     CASE p.tv = 1 -> TreeSrc2
                       [] p.tv = 2 -> TreeFileNamedPrefix
                       [] OTHER -> TreeEmpty) @@
      "c2" :> Commit(<<"c1", "o1">>, <<"c">>, 3, 3, TreeSrc2) @@
      "c3" :> Commit(<<"c1">>, <<"c">>, 3, 3, TreeSrc2) @@
      "c4" :> Commit(<<"d1", "o2">>, <<"c">>, 3, 3, TreeSrc2) @@
      "d1" :> Commit(<<>>, <<"d">>, 0, 0, TreeSrc) @@
      "r1" :> Commit(<<"n1">>, <<"c">>, 3, 3, TreeMono))]

\* ------------------------------------------------------------ git, as called
NoObject == "?"
\* A revision name resolves to a commit when it is a ref or a commit hash.
RevParse(r, name) ==
  IF Len(name) # 1 THEN NoObject
  ELSE IF name[1] \in DOMAIN r.refs THEN r.refs[name[1]]
  ELSE IF name[1] \in DOMAIN r.commits THEN name[1]
  ELSE NoObject

RECURSIVE Ancestors(_, _)
Ancestors(r, c) ==
  {c} \cup UNION {Ancestors(r, p) : p \in Range(r.commits[c].parents)}

\* git merge-base for two commits: exit 1 and no output when the two share no
\* ancestor, else a best common ancestor.
BestCommon(r, common) ==
  IF common = {} THEN [status |-> 1, out |-> <<>>]
  ELSE [status |-> 0,
        out |-> <<CHOOSE x \in common :
                    \A y \in common \ {x} : x \notin Ancestors(r, y), NL>>]

\* git merge-base a b: exit 128 for a bad revision.
git_merge_base(r, a, b) ==
  IF RevParse(r, a) = NoObject \/ RevParse(r, b) = NoObject
  THEN [status |-> 128, out |-> <<>>]
  ELSE BestCommon(r, Ancestors(r, RevParse(r, a)) \cap Ancestors(r, RevParse(r, b)))

\* git show -s --format='%at %ae' rev, already split at the first space: the
\* author time and the author e-mail.
git_show_at_ae(r, name) ==
  IF RevParse(r, name) = NoObject
  THEN [status |-> 128, date |-> 0, email |-> <<>>]
  ELSE [status |-> 0, date |-> r.commits[RevParse(r, name)].atime,
        email |-> r.commits[RevParse(r, name)].email]

\* The author header line --author is matched against.
AuthorLine(c) == c.name \o <<" ", "<">> \o c.email \o <<">">>

Contains(s, pat) ==
  \E i \in 0..(Len(s) - Len(pat)) : SubSeq(s, i + 1, i + Len(pat)) = pat

\* The commits a `git log --since` walk from c shows: the walk does not pass
\* a commit whose committer time is before `since`.
RECURSIVE Walk(_, _, _)
Walk(r, c, since) ==
  IF r.commits[c].ctime < since THEN {}
  ELSE {c} \cup UNION {Walk(r, p, since) : p \in Range(r.commits[c].parents)}

\* One output line per item.
RECURSIVE Lines(_)
Lines(l) == IF l = <<>> THEN <<>> ELSE <<Head(l), NL>> \o Lines(Tail(l))

\* The items, each after a space.
RECURSIVE Words(_)
Words(l) == IF l = <<>> THEN <<>> ELSE <<SP, Head(l)>> \o Words(Tail(l))

\* git log --author <pattern> --since <since> --until <until> --pretty=%H tip
\* --author is a pattern searched in the author line; --since and --until
\* compare the committer time, both ends included.
git_log(r, pattern, since, until, tip) ==
  IF RevParse(r, tip) = NoObject THEN [status |-> 128, out |-> <<>>]
  ELSE [status |-> 0,
        out |-> Lines(SetToSeq({c \in Walk(r, RevParse(r, tip), since) :
                                  /\ r.commits[c].ctime <= until
                                  /\ Contains(AuthorLine(r.commits[c]), pattern)}))]

\* git rev-list --parents -n 1 rev: the commit followed by its parents.
git_rev_list_parents(r, name) ==
  IF RevParse(r, name) = NoObject THEN [status |-> 128, out |-> <<>>]
  ELSE [status |-> 0,
        out |-> name \o Words(r.commits[RevParse(r, name)].parents) \o <<NL>>]

\* git ls-tree -r rev: the entries of the commit's tree.
git_ls_tree(r, name) ==
  IF RevParse(r, name) = NoObject THEN [status |-> 128, out |-> <<>>]
  ELSE [status |-> 0, out |-> r.commits[RevParse(r, name)].tree]

\* --------------------------------------------------------------- filter.py
\* Lines 46-47, on the answer mb of git merge-base.
not_merge_base(mb, rv) ==
  IF mb.status # 0 THEN Raise("CalledProcessError")
  ELSE PyBool(strip(mb.out) # rv)

\* should_edit, undecorated.
should_edit(r, rv) == not_merge_base(git_merge_base(r, rv, <<OLD_UPSTREAM>>), rv)

AmbiguousError == "RuntimeError: more than one corresponding rev"
UnmappedError == "RuntimeError: couldn't map_to_new_upstream"
MapfileError == "RuntimeError: mapfile doesn't contain a single line"

\* Lines 73-78, on the answer mb of git merge-base.
no_correspondence(mb, rv) ==
  IF mb.status # 0 THEN Raise("CalledProcessError")
  ELSE IF strip(mb.out) = rv THEN Raise(UnmappedError)
  ELSE PyNone

\* Lines 66-80, on the list new_upstream_revs.
pick_new_upstream(r, rv, new_upstream_revs) ==
  IF Len(new_upstream_revs) > 1 THEN Raise(AmbiguousError)
  ELSE IF new_upstream_revs = <<>> \/ new_upstream_revs[1] = <<>>
  THEN no_correspondence(git_merge_base(r, rv, <<OLD_UPSTREAM>>), rv)
  ELSE PyStr(new_upstream_revs[1])

\* Lines 63-65, on the answer log of git log.
split_log(r, rv, log) ==
  IF log.status # 0 THEN Raise("CalledProcessError")
  ELSE pick_new_upstream(r, rv, split_sep(strip(log.out), NL))

\* Lines 62-65, on the answer show of git show.
log_new_upstream(r, rv, show) ==
  IF show.status # 0 THEN Raise("CalledProcessError")
  ELSE split_log(r, rv, git_log(r, show.email, show.date, show.date + 1,
                                <<NEW_UPSTREAM>>))

\* map_to_new_upstream, undecorated.
map_to_new_upstream(r, rv) == log_new_upstream(r, rv, git_show_at_ae(r, rv))

\* Lines 97-100, on the text of the file.
single_line(lines) ==
  IF Len(lines) # 1 THEN Raise(MapfileError) ELSE PyStr(lines[1])

\* map_to_filtered: the file ../map/<rev>, when there is one.
map_to_filtered(md, rv) ==
  IF rv \notin DOMAIN md THEN PyNone
  ELSE single_line(split_sep(strip(md[rv]), NL))

\* ---------------------------------------------------------- the memo cache
\* The undecorated function cache_decorator(name) wraps.
Compute(r, name, rv) ==
  IF name = "should_edit" THEN should_edit(r, rv) ELSE map_to_new_upstream(r, rv)

\* One FSCache directory for both decorated functions.
CacheKey_shared(name, rv) == <<"cache", rv>>

\* One FSCache directory per decorated function, one entry per argument.
CacheKey(name, rv) == <<name, rv>>

NoCache == [k \in {} |-> PyNone]

\* FSCache's wrapper: the stored value on a hit, else the value v the call
\* computes, stored unless the call raised.
fscache(en, c, k, v) ==
  IF en /\ k \in DOMAIN c THEN [val |-> c[k], cache |-> c]
  ELSE [val |-> v, cache |-> IF en /\ v.kind # "raise" THEN (k :> v) @@ c ELSE c]

\* cache_decorator(name)(fn)(rv) with the cache c: the value, and the cache
\* after the call.
cache_decorator(r, en, c, name, rv) ==
  fscache(en, c, CacheKey(name, rv), Compute(r, name, rv))

\* ------------------------------------------------------------- filter_index
\* Lines 117-121: the first parent map_to_new_upstream does not answer None
\* for; the generator stops at the first such answer, and at the first raise.
RECURSIVE scan_parents(_, _, _, _)
scan_next(r, en, parents, call) ==
  IF call.val = PyNone THEN scan_parents(r, en, call.cache, Tail(parents))
  ELSE call

scan_parents(r, en, c, parents) ==
  IF parents = <<>> THEN [val |-> PyNone, cache |-> c]
  ELSE scan_next(r, en, parents,
                 cache_decorator(r, en, c, "map_to_new_upstream", Head(parents)))

\* Lines 125-127 without the substitution.
use_filtered_ignored(chosen, filtered_parent_rev) ==
  IF filtered_parent_rev.kind = "raise" THEN filtered_parent_rev
  ELSE PyStr(chosen)

\* Lines 125-127, on the answer of map_to_filtered.
use_filtered(chosen, filtered_parent_rev) ==
  IF filtered_parent_rev.kind = "raise" \/ Truthy(filtered_parent_rev)
  THEN filtered_parent_rev
  ELSE PyStr(chosen)

\* Lines 116-127, on the parents and the answer of the scan.
choose_parent(md, parents, scan) ==
  IF scan.val.kind = "raise" THEN scan
  ELSE [val |-> use_filtered(
                  IF scan.val = PyNone THEN parents[1] ELSE scan.val.val,
                  map_to_filtered(md, IF scan.val = PyNone THEN parents[1]
                                      ELSE scan.val.val)),
        cache |-> scan.cache]

\* Lines 116-121, on the parents.
scan_from_first(r, en, c, md, parents) ==
  IF parents = <<>> THEN [val |-> Raise("IndexError"), cache |-> c]
  ELSE choose_parent(md, parents, scan_parents(r, en, c, parents))

\* Lines 114-115, on the answer rl of git rev-list.
split_parents(r, en, c, md, rl) ==
  IF rl.status # 0 THEN [val |-> Raise("CalledProcessError"), cache |-> c]
  ELSE scan_from_first(r, en, c, md, Tail(split_ws(strip(rl.out))))

\* Lines 114-127: parent_rev as a str value, or the exception that ends it.
resolve_parent(r, en, c, md, rv) ==
  split_parents(r, en, c, md, git_rev_list_parents(r, rv))

\* sed -e $'s:\t:\tclang/:' on a listing: every path moves under clang/.
sed_prefix(l) == [i \in DOMAIN l |-> Entry(<<Prefix>> \o l[i].path, l[i].obj)]

UnderPrefix(path) == Len(path) > 1 /\ path[1] = Prefix

\* grep -v $'\tclang/' on a listing: the paths that start with clang/ go.
grep_v_prefix(l) == SelectSeq(l, LAMBDA e : ~UnderPrefix(e.path))

IsDirOf(p, q) == Len(p) < Len(q) /\ SubSeq(q, 1, Len(p)) = p

\* git update-index --index-info adds the lines in order; --index-info lets a
\* line replace the entry of its path and the entries it conflicts with as a
\* file against a directory.
add_cacheinfo(idx, e) ==
  {x \in idx : /\ x.path # e.path
               /\ ~IsDirOf(x.path, e.path)
               /\ ~IsDirOf(e.path, x.path)} \cup {e}

RECURSIVE update_index(_, _)
update_index(idx, l) ==
  IF l = <<>> THEN idx ELSE update_index(add_cacheinfo(idx, Head(l)), Tail(l))

Absent == [exists |-> FALSE, entries |-> {}]

\* What reaches the pipe from one git ls-tree: nothing when it fails.
piped(ls, fails) == IF ls.status # 0 \/ fails THEN <<>> ELSE ls.out

\* Lines 133-138: the pipeline's lines.
listing(r, rv, prv, ownFails, parentFails) ==
  sed_prefix(piped(git_ls_tree(r, rv), ownFails)) \o
  grep_v_prefix(piped(git_ls_tree(r, prv), parentFails))

\* The file update-index leaves at GIT_INDEX_FILE.new: it writes the file only
\* when a line changed the index it read (an empty one when there is no file).
build_index(old, l) ==
  IF l = <<>> THEN old
  ELSE [exists |-> TRUE, entries |-> update_index(old.entries, l)]

\* ------------------------------------------------------------ filter_parent
\* Lines 154-158 without the else branch: None is appended as it comes.
new_parent_unchecked(p, tp) == tp.val

\* Lines 154-158: the token p, or the commit map_to_new_upstream answered.
new_parent(p, tp) == IF Truthy(tp) THEN tp.val ELSE p

\* Lines 150-158: -p stays, any other token becomes its new-upstream commit
\* when map_to_new_upstream answers one.
RECURSIVE new_parents(_, _, _, _, _)
mapped_parent(r, en, tokens, acc, call) ==
  IF call.val.kind = "raise"
  THEN [val |-> call.val, list |-> acc, cache |-> call.cache]
  ELSE new_parents(r, en, call.cache, Tail(tokens),
                   Append(acc, new_parent(Head(tokens), call.val)))

new_parents(r, en, c, tokens, acc) ==
  IF tokens = <<>> THEN [val |-> PyNone, list |-> acc, cache |-> c]
  ELSE IF Head(tokens) = <<"-p">>
  THEN new_parents(r, en, c, Tail(tokens), Append(acc, Head(tokens)))
  ELSE mapped_parent(r, en, tokens, acc,
         cache_decorator(r, en, c, "map_to_new_upstream", Head(tokens)))

\* Line 160, on the answer of the loop.
print_parents(res) ==
  IF res.val.kind = "raise"
  THEN [val |-> res.val, out |-> <<>>, cache |-> res.cache]
  ELSE [val |-> PyNone, out |-> join_sp(res.list) \o <<NL>>, cache |-> res.cache]

\* Lines 144-160 without the early return.
echo_or_rewrite_always(r, en, in, se) ==
  IF se.val.kind = "raise"
  THEN [val |-> se.val, out |-> <<>>, cache |-> se.cache]
  ELSE print_parents(new_parents(r, en, se.cache, split_ws(strip(in)), <<>>))

\* Lines 144-160, on the answer se of should_edit.
echo_or_rewrite(r, en, in, se) ==
  IF se.val.kind = "raise"
  THEN [val |-> se.val, out |-> <<>>, cache |-> se.cache]
  ELSE IF ~Truthy(se.val)
  THEN [val |-> PyNone, out |-> in \o <<NL>>, cache |-> se.cache]
  ELSE print_parents(new_parents(r, en, se.cache, split_ws(strip(in)), <<>>))

\* filter_parent(rev) with the text `in` on stdin: what it returns or raises,
\* what it prints, and the cache after it.
filter_parent(r, en, c, rv, in) ==
  echo_or_rewrite(r, en, in, cache_decorator(r, en, c, "should_edit", rv))

\* -------------------------------------------------------------- the driver
NoFiles == [k \in {} |-> <<>>]
NoCall == [fn |-> "", arg |-> <<>>, val |-> PyNone]
NoFailure == [own |-> FALSE, parent |-> FALSE]

\* git-filter-branch hands the parent filter " -p <parent>" per parent and a
\* newline.
RECURSIVE InputText(_)
InputText(ps) ==
  IF ps = <<>> THEN <<NL>> ELSE <<SP, "-p", SP, Head(ps)>> \o InputText(Tail(ps))

\* The commits the run visits, and the parent lists it hands to the parent
\* filter: the commit's own parents, or those with the first one replaced by
\* the commit an earlier rewrite made of it.
StartRevs == {"o2", "c1", "c2", "c3", "c4", "d1"}
ParentLists(r, c) ==
  {r.commits[c].parents} \cup
  (IF r.commits[c].parents = <<>> THEN {}
   ELSE {<<"r1">> \o Tail(r.commits[c].parents)})

\* The files the driver may have left in ../map: a rewritten hash, nothing,
\* two hashes, the hash of an object the repository does not hold.
MapKeys == {<<"n2">>, <<"c1">>}
MainMapTexts == {<<"r1", NL>>, <<>>, <<"r1", NL, "n1", NL>>, <<"zz", NL>>}
MapSyms == {"r1", "zz", SP, NL}
Texts(n) == UNION {[1..k -> MapSyms] : k \in 0..n}

Snapshot(i, n, m, c) == [index |-> i, new_index |-> n, mapdir |-> m, cache |-> c]

InitCommon ==
  /\ cacheEnabled \in BOOLEAN
  /\ cache = NoCache
  /\ index = {}
  /\ new_index = Absent
  /\ pc = "idle"
  /\ cmd = ""
  /\ rev = <<>>
  /\ stdin = <<>>
  /\ stdout = <<>>
  /\ parent_rev = <<>>
  /\ ret = NoCall
  /\ runs = 0
  /\ lsfail = NoFailure

Init ==
  /\ repo \in {Repo(p) : p \in MainParams}
  /\ mapdir = NoFiles
  /\ snap = Snapshot({}, Absent, NoFiles, NoCache)
  /\ InitCommon

\* The driver records a rewritten commit in ../map between two commits.
DriverWriteMap(k, text) ==
  /\ pc \in {"idle", "done"}
  /\ DOMAIN mapdir = {}
  /\ mapdir' = (k :> text)
  /\ pc' = "idle"
  /\ UNCHANGED <<repo, cacheEnabled, cache, index, new_index, cmd, rev,
                 stdin, stdout, parent_rev, ret, runs, snap, lsfail>>

\* Lines 163-170: the driver has read the commit's tree into the index and
\* starts `filter.py index` or `filter.py parent` with GIT_COMMIT set.
Start(c, m, ps) ==
  /\ pc \in {"idle", "done"}
  /\ runs < MaxRuns
  /\ runs' = runs + 1
  /\ cmd' = m
  /\ rev' = <<c>>
  /\ stdin' = IF m = "parent" THEN InputText(ps) ELSE <<>>
  /\ stdout' = <<>>
  /\ parent_rev' = <<>>
  /\ ret' = NoCall
  /\ lsfail' = NoFailure
  /\ index' = Range(repo.commits[c].tree)
  /\ snap' = Snapshot(index', new_index, mapdir, cache)
  /\ pc' = IF m = "index" THEN "index:should_edit" ELSE "parent"
  /\ UNCHANGED <<repo, cacheEnabled, cache, mapdir, new_index>>

Finish(v) ==
  /\ pc' = IF v.kind = "raise" THEN "failed" ELSE "done"
  /\ ret' = [fn |-> IF cmd = "index" THEN "filter_index" ELSE "filter_parent",
             arg |-> rev, val |-> v]

\* Lines 108-109.
filter_index_should_edit ==
  /\ pc = "index:should_edit"
  /\ \E call \in {cache_decorator(repo, cacheEnabled, cache, "should_edit", rev)} :
        /\ cache' = call.cache
        /\ IF call.val.kind = "raise" \/ ~Truthy(call.val)
           THEN Finish(IF call.val.kind = "raise" THEN call.val ELSE PyNone)
           ELSE pc' = "index:parents" /\ ret' = ret
  /\ UNCHANGED <<repo, cacheEnabled, mapdir, index, new_index, cmd, rev, stdin,
                 stdout, parent_rev, runs, snap, lsfail>>

\* Lines 114-127.
filter_index_resolve ==
  /\ pc = "index:parents"
  /\ \E res \in {resolve_parent(repo, cacheEnabled, cache, mapdir, rev)} :
        /\ cache' = res.cache
        /\ IF res.val.kind = "raise"
           THEN Finish(res.val) /\ parent_rev' = parent_rev
           ELSE pc' = "index:build" /\ ret' = ret /\ parent_rev' = res.val.val
  /\ UNCHANGED <<repo, cacheEnabled, mapdir, index, new_index, cmd, rev, stdin,
                 stdout, runs, snap, lsfail>>

\* Lines 129-138: the shell pipeline. Neither git ls-tree decides its exit
\* status: that is git update-index's, which check_call raises on.
filter_index_build ==
  /\ pc = "index:build"
  /\ \E ownFails, parentFails, updateFails \in BOOLEAN :
          /\ lsfail' = [own |-> git_ls_tree(repo, rev).status # 0 \/ ownFails,
                        parent |-> git_ls_tree(repo, parent_rev).status # 0
                                     \/ parentFails]
          /\ IF updateFails
             THEN Finish(Raise("CalledProcessError")) /\ new_index' = new_index
             ELSE /\ pc' = "index:rename"
                  /\ ret' = ret
                  /\ new_index' = build_index(new_index,
                                    listing(repo, rev, parent_rev, ownFails, parentFails))
  /\ UNCHANGED <<repo, cacheEnabled, cache, mapdir, index, cmd, rev, stdin,
                 stdout, parent_rev, runs, snap>>

\* Line 139: os.rename(new_index_file, index_file).
filter_index_rename ==
  /\ pc = "index:rename"
  /\ IF new_index.exists
     THEN /\ index' = new_index.entries
          /\ new_index' = Absent
          /\ Finish(PyNone)
     ELSE /\ Finish(Raise("OSError"))
          /\ UNCHANGED <<index, new_index>>
  /\ UNCHANGED <<repo, cacheEnabled, cache, mapdir, cmd, rev, stdin, stdout,
                 parent_rev, runs, snap, lsfail>>

\* Lines 143-160.
filter_parent_run ==
  /\ pc = "parent"
  /\ \E res \in {filter_parent(repo, cacheEnabled, cache, rev, stdin)} :
        /\ cache' = res.cache
        /\ stdout' = res.out
        /\ Finish(res.val)
  /\ UNCHANGED <<repo, cacheEnabled, mapdir, index, new_index, cmd, rev, stdin,
                 parent_rev, runs, snap, lsfail>>

\* The process dies between two steps.
Kill ==
  /\ pc \in {"index:should_edit", "index:parents", "index:build", "index:rename",
             "parent"}
  /\ Finish(Raise("killed"))
  /\ UNCHANGED <<repo, cacheEnabled, cache, mapdir, index, new_index, cmd, rev,
                 stdin, stdout, parent_rev, runs, snap, lsfail>>

Next ==
  \/ \E k \in MapKeys, t \in MainMapTexts : DriverWriteMap(k, t)
  \/ \E c \in StartRevs : Start(c, "index", <<>>)
  \/ \E c \in StartRevs : \E ps \in ParentLists(repo, c) : Start(c, "parent", ps)
  \/ filter_index_should_edit
  \/ filter_index_resolve
  \/ filter_index_build
  \/ filter_index_rename
  \/ filter_parent_run
  \/ Kill

Spec == Init /\ [][Next]_vars

\* ------------------------------------------- the functions, called directly
InitCalls ==
  /\ \/ repo \in {Repo(p) : p \in Params} /\ mapdir = NoFiles
     \/ /\ repo = Repo(Plain)
        /\ mapdir \in {(k :> t) : k \in MapKeys, t \in Texts(MaxMapLen)}
  /\ snap = Snapshot({}, Absent, mapdir, NoCache)
  /\ InitCommon

Called(fn, arg, v) ==
  /\ pc = "idle"
  /\ pc' = "done"
  /\ ret' = [fn |-> fn, arg |-> arg, val |-> v]
  /\ UNCHANGED <<repo, cacheEnabled, mapdir, index, new_index, cmd, rev, stdin,
                 stdout, parent_rev, runs, snap, lsfail>>

call_should_edit(c) ==
  \E call \in {cache_decorator(repo, cacheEnabled, cache, "should_edit", <<c>>)} :
    Called("should_edit", <<c>>, call.val) /\ cache' = call.cache

call_map_to_new_upstream(c) ==
  \E call \in {cache_decorator(repo, cacheEnabled, cache, "map_to_new_upstream", <<c>>)} :
    Called("map_to_new_upstream", <<c>>, call.val) /\ cache' = call.cache

call_map_to_filtered(k) ==
  Called("map_to_filtered", k, map_to_filtered(mapdir, k)) /\ cache' = cache

NextCalls ==
  \/ \E c \in Commits : call_should_edit(c)
  \/ \E c \in Commits : call_map_to_new_upstream(c)
  \/ \E k \in MapKeys : call_map_to_filtered(k)

SpecCalls == InitCalls /\ [][NextCalls]_vars

\* =================================================================== claims
OldTip == repo.refs[OLD_UPSTREAM]
InOld(c) == c \in Ancestors(repo, OldTip)
SharesAncestor(c) == Ancestors(repo, c) \cap Ancestors(repo, OldTip) # {}
NewCommits == Ancestors(repo, repo.refs[NEW_UPSTREAM])
Killed == Raise("killed")
Min(S) == CHOOSE x \in S : \A y \in S : x <= y

\* C1 as stated: should_edit(c) is false for an ancestor-or-equal of the
\* old-upstream tip and true for every other commit.
C1_Original ==
  ret.fn = "should_edit" => ret.val = PyBool(~InOld(ret.arg[1]))

\* C2, for the calls that return: for a commit c of the old-upstream line,
\* map_to_new_upstream(c) returns one commit of the new-upstream line whose
\* author e-mail is c's and whose timestamp is in [timestamp(c), timestamp(c)+1].
C2_Original ==
  (ret.fn = "map_to_new_upstream" /\ InOld(ret.arg[1]) /\ ret.val.kind # "raise")
    => /\ ret.val.kind = "str"
       /\ Len(ret.val.val) = 1
       /\ ret.val.val[1] \in NewCommits
       /\ repo.commits[ret.val.val[1]].email = repo.commits[ret.arg[1]].email
       /\ repo.commits[ret.val.val[1]].ctime >= repo.commits[ret.arg[1]].ctime
       /\ repo.commits[ret.val.val[1]].ctime <= repo.commits[ret.arg[1]].ctime + 1

\* The new-upstream commits with c's author e-mail and a timestamp in
\* [timestamp(c), timestamp(c)+1].
Counterparts(c) ==
  {n \in NewCommits :
     /\ repo.commits[n].email = repo.commits[c].email
     /\ repo.commits[n].ctime >= repo.commits[c].ctime
     /\ repo.commits[n].ctime <= repo.commits[c].ctime + 1}

\* C3, for the commits that share an ancestor with the old-upstream tip:
\* map_to_new_upstream(rev) raises exactly when rev has more than one
\* counterpart, or none while rev is in the old-upstream ancestry; with none
\* and rev outside that ancestry it returns None.
C3_Original ==
  (ret.fn = "map_to_new_upstream" /\ SharesAncestor(ret.arg[1])) =>
    /\ (ret.val.kind = "raise") <=>
         \/ Cardinality(Counterparts(ret.arg[1])) > 1
         \/ Counterparts(ret.arg[1]) = {} /\ InOld(ret.arg[1])
    /\ (Counterparts(ret.arg[1]) = {} /\ ~InOld(ret.arg[1])) => ret.val = PyNone

\* The lines of a text file: one per newline, and one more for an unended
\* last line.
FileLines(t) ==
  Cardinality({i \in 1..Len(t) : t[i] = NL}) +
  (IF t # <<>> /\ t[Len(t)] # NL THEN 1 ELSE 0)

\* C4 as stated: None without a file; the line of a one-line file; the
\* malformed-entry error for a file of zero lines or of two or more.
C4_Original ==
  ret.fn = "map_to_filtered" =>
    IF ret.arg \notin DOMAIN mapdir THEN ret.val = PyNone
    ELSE IF FileLines(mapdir[ret.arg]) = 1
    THEN ret.val = PyStr(split_sep(mapdir[ret.arg], NL)[1])
    ELSE ret.val = Raise(MapfileError)

\* ---------------------------------------------------- the per-commit runs
\* The process has ended by itself: it returned or raised.
Ended == pc \in {"done", "failed"} /\ ret.val # Killed
EditRev == should_edit(repo, rev) = PyTrue
Mapped(p) == map_to_new_upstream(repo, p)
InTokens == split_ws(strip(stdin))

\* The parent list the parent filter is to print: -p where -p was, and for a
\* parent its new-upstream commit when it has one, else the parent.
Rewritten ==
  [i \in DOMAIN InTokens |->
     IF InTokens[i] = <<"-p">> THEN InTokens[i]
     ELSE IF Mapped(InTokens[i]).kind = "str" THEN Mapped(InTokens[i]).val
     ELSE InTokens[i]]

Raising == {i \in DOMAIN InTokens :
              InTokens[i] # <<"-p">> /\ Mapped(InTokens[i]).kind = "raise"}

\* C5 as stated, for the parent lists whose git queries all succeed: for a
\* commit to edit, filter_parent prints the parent list with every parent
\* replaced by its new-upstream commit when it has one.
C5_Original ==
  (cmd = "parent" /\ Ended /\ EditRev /\ InTokens # <<>>
     /\ \A i \in Raising : Mapped(InTokens[i]) # Raise("CalledProcessError"))
    => split_ws(stdout) = Rewritten

\* C5, amended: the same, provided map_to_new_upstream raises for no parent
\* of the list; when it raises for one, filter_parent raises that error at the
\* first such parent and prints nothing.
C5_FilterParent ==
  (cmd = "parent" /\ Ended /\ EditRev /\ InTokens # <<>>) =>
    IF Raising = {}
    THEN /\ pc = "done"
         /\ split_ws(stdout) = Rewritten
         /\ stdout = join_sp(Rewritten) \o <<NL>>
    ELSE /\ pc = "failed"
         /\ stdout = <<>>
         /\ ret.val = Mapped(InTokens[Min(Raising)])

\* filter_parent(c1) has printed "-p n2" for the input " -p o2".
C5_Witness ==
  /\ cmd = "parent" /\ pc = "done" /\ rev = <<"c1">>
  /\ stdin = InputText(<<"o2">>)
  /\ stdout = <<"-p", SP, "n2", NL>>

NoEditDone == pc = "done" /\ cmd \in {"index", "parent"}
                /\ should_edit(repo, rev) = PyFalse

\* C6 as stated: for a commit not to edit, filter_index and filter_parent
\* change neither the index, nor a temporary index, nor the rewrite map, nor
\* the memo cache, and filter_parent prints the parent list it read.
C6_Original ==
  NoEditDone =>
    /\ index = snap.index
    /\ new_index = snap.new_index
    /\ mapdir = snap.mapdir
    /\ cache = snap.cache
    /\ cmd = "parent" => split_ws(stdout) = split_ws(stdin)

\* C6, amended: for a commit not to edit, filter_index and filter_parent
\* change neither the index, nor a temporary index, nor the rewrite map; with
\* the cache enabled the first of them stores should_edit(rev) = False in the
\* memo cache and the later ones write nothing; filter_parent prints the text
\* it read and a newline.
C6_NoEdit ==
  NoEditDone =>
    /\ index = snap.index
    /\ new_index = snap.new_index
    /\ mapdir = snap.mapdir
    /\ cache = IF cacheEnabled
               THEN (CacheKey("should_edit", rev) :> PyFalse) @@ snap.cache
               ELSE snap.cache
    /\ CacheKey("should_edit", rev) \in DOMAIN snap.cache => cache = snap.cache
    /\ cmd = "parent" => stdout = stdin \o <<NL>>

\* A first filter_parent of a commit not to edit has stored should_edit's
\* answer and echoed its input.
C6_Witness ==
  /\ NoEditDone /\ cmd = "parent" /\ cacheEnabled
  /\ cache # snap.cache
  /\ stdout = stdin \o <<NL>>

PlainParent == filter_parent(repo, FALSE, NoCache, rev, stdin)
PlainResolve == resolve_parent(repo, FALSE, NoCache, mapdir, rev)

\* C7: every cache entry is what the undecorated function computes and stays
\* as it was written, and what filter_parent prints, returns or raises and the
\* parent filter_index resolves are what they are with the cache disabled.
C7_CacheTransparent ==
  /\ \A k \in DOMAIN cache : cache[k] = Compute(repo, k[1], k[2])
  /\ \A k \in DOMAIN snap.cache : k \in DOMAIN cache /\ cache[k] = snap.cache[k]
  /\ ~cacheEnabled => cache = NoCache
  /\ (cmd = "parent" /\ Ended) =>
       ret.val = PlainParent.val /\ stdout = PlainParent.out
  /\ (cmd = "index" /\ pc = "index:parents") => EditRev
  /\ (cmd = "index" /\ pc \in {"index:build", "index:rename"}) =>
       EditRev /\ PyStr(parent_rev) = PlainResolve.val
  /\ (cmd = "index" /\ pc = "done") =>
       \/ should_edit(repo, rev) = PyFalse
       \/ EditRev /\ PyStr(parent_rev) = PlainResolve.val
  /\ (cmd = "index" /\ Ended /\ pc = "failed" /\ parent_rev = <<>>
        /\ ret.val # Raise("OSError")) =>
       ret.val = IF should_edit(repo, rev).kind = "raise"
                 THEN should_edit(repo, rev) ELSE PlainResolve.val

\* A second run has found should_edit's answer for its commit in the cache.
C7_Witness ==
  /\ cacheEnabled /\ runs = 2 /\ pc = "done"
  /\ CacheKey("should_edit", rev) \in DOMAIN snap.cache
  /\ CacheKey("map_to_new_upstream", <<"o2">>) \in DOMAIN snap.cache
  /\ cmd = "parent" /\ stdout = <<"-p", SP, "n2", NL>>

RevParents ==
  [i \in DOMAIN repo.commits[rev[1]].parents |-> <<repo.commits[rev[1]].parents[i]>>]
WithCounterpart == {i \in DOMAIN RevParents : Mapped(RevParents[i]).kind = "str"}
NotNone == {i \in DOMAIN RevParents : Mapped(RevParents[i]) # PyNone}
Resolving == cmd = "index" /\ EditRev
               /\ (pc \in {"index:build", "index:rename"} \/ Ended)

\* C8 as stated, for the commits whose parents' git queries all succeed: the
\* reference parent is the new-upstream commit of the first parent that has
\* one, else the first parent; and the rewritten hash of that commit when the
\* rewrite map has it.
C8_Original ==
  (Resolving /\ \A i \in NotNone : Mapped(RevParents[i]) # Raise("CalledProcessError")) =>
    LET chosen == IF WithCounterpart # {}
                  THEN Mapped(RevParents[Min(WithCounterpart)]).val
                  ELSE RevParents[1]
        hit == map_to_filtered(mapdir, chosen)
    IN parent_rev = IF hit.kind = "str" THEN hit.val ELSE chosen

\* C8, amended: the same, provided map_to_new_upstream raises for no parent
\* up to the first that has a new-upstream commit and map_to_filtered does not
\* raise for the chosen one, a hit being a non-empty line; when one of them
\* raises, filter_index raises that error and resolves no parent.
C8_ReferenceParent ==
  Resolving =>
    LET stop == IF NotNone = {} THEN PyNone ELSE Mapped(RevParents[Min(NotNone)])
        chosen == IF stop = PyNone THEN RevParents[1] ELSE stop.val
        hit == map_to_filtered(mapdir, chosen)
    IN IF stop.kind = "raise"
       THEN pc = "failed" /\ ret.val = stop /\ parent_rev = <<>>
       ELSE IF hit.kind = "raise"
       THEN pc = "failed" /\ ret.val = hit /\ parent_rev = <<>>
       ELSE parent_rev = IF hit.kind = "str" /\ hit.val # <<>>
                         THEN hit.val ELSE chosen

\* filter_index(c1) has resolved o2 to n2 and n2 to the rewritten r1.
C8_Witness ==
  /\ cmd = "index" /\ pc = "index:build" /\ rev = <<"c1">>
  /\ <<"n2">> \in DOMAIN mapdir
  /\ parent_rev = <<"r1">>

\* C9, with both trees listed: for a commit to edit whose reference parent P
\* is resolved, the staged index holds every entry of rev's tree under the
\* prefix and every entry of P's tree that is not under the prefix, and
\* nothing else.
C9_Original ==
  (cmd = "index" /\ pc = "done" /\ EditRev /\ RevParse(repo, parent_rev) # NoObject
     /\ ~lsfail.own /\ ~lsfail.parent)
    => index =
         {Entry(<<Prefix>> \o e.path, e.obj) : e \in Range(repo.commits[rev[1]].tree)}
         \cup
         {e \in Range(repo.commits[RevParse(repo, parent_rev)].tree) :
            ~UnderPrefix(e.path)}

\* C10: the index the driver sees is the one it was before filter_index or
\* the index built from both complete tree listings, and it is the one it was
\* before when a tree listing, the build or the process failed.
C10_Original ==
  cmd = "index" =>
    \/ index = snap.index
    \/ /\ pc = "done" /\ ret.val = PyNone
       /\ ~lsfail.own /\ ~lsfail.parent
       /\ index = update_index({}, listing(repo, rev, parent_rev, FALSE, FALSE))

====
